---- MODULE Spec2Model ----
(***************************************************************************)
(* Request/response model of the three HTTP handlers of the repository:    *)
(*   api/remove_bg.py      serverless handler, background removal          *)
(*   api/images_to_glb.py  serverless handler, 3D-conversion placeholder   *)
(*   local_bg_server.py    Flask mirror of the background-removal handler  *)
(*                                                                         *)
(* Strings are sequences of one-character strings.  Bytes are 0..255.      *)
(* An image is abstracted to the three bytes <<magic, width, height>>;     *)
(* the base64 coding is computed bit by bit.                               *)
(***************************************************************************)
EXTENDS Integers, Sequences, FiniteSets, TLC

\* Longest imageData payload (the part after an optional data-URI prefix).
MaxLen == 5

\* The same bound where the capability and the connection may also fail.
IOMaxLen == 4

\* Characters the payloads are built from: three base64 digits, the comma,
\* and a character outside the base64 alphabet.  "iQ" opens a PNG stream
\* and "//" a JPEG stream.
PayloadAlphabet == {"i", "Q", "/", ",", "!"}

Payloads(n) == UNION {[1..k -> PayloadAlphabet] : k \in 0..n}

DataUriPrefix ==
  <<"d","a","t","a",":","i","m","a","g","e","/","p","n","g",";",
    "b","a","s","e","6","4",",">>

Prefixes == {<< >>, DataUriPrefix}

(***************************************************************************)
(* Library functions the handlers call.                                    *)
(***************************************************************************)

B64Alphabet ==
  <<"A","B","C","D","E","F","G","H","I","J","K","L","M","N","O","P",
    "Q","R","S","T","U","V","W","X","Y","Z","a","b","c","d","e","f",
    "g","h","i","j","k","l","m","n","o","p","q","r","s","t","u","v",
    "w","x","y","z","0","1","2","3","4","5","6","7","8","9","+","/">>

IsB64Digit(c) == \E i \in 1..64 : B64Alphabet[i] = c

B64Val(c) == (CHOOSE i \in 1..64 : B64Alphabet[i] = c) - 1

\* `',' in image_data`
HasComma(s) == \E i \in DOMAIN s : s[i] = ","

\* str.split(','): the list of the segments between the commas.
RECURSIVE SplitFrom(_, _, _)
SplitFrom(s, i, cur) ==
  IF i > Len(s) THEN <<cur>>
  ELSE IF s[i] = "," THEN <<cur>> \o SplitFrom(s, i + 1, << >>)
  ELSE SplitFrom(s, i + 1, Append(cur, s[i]))

Split(s) == SplitFrom(s, 1, << >>)

\* base64.b64decode(s) with validate=False: characters outside the alphabet
\* are skipped, a complete pad sequence ends the parse, and a quad left
\* incomplete at the end of the input raises binascii.Error.
RECURSIVE A2bBase64(_, _, _, _, _, _)
A2bBase64(s, i, quad_pos, leftchar, pads, out) ==
  IF i > Len(s)
  THEN [ok |-> quad_pos = 0, bytes |-> out]
  ELSE IF s[i] = "="
  THEN IF quad_pos >= 2
       THEN IF quad_pos + pads + 1 >= 4
            THEN [ok |-> TRUE, bytes |-> out]
            ELSE A2bBase64(s, i + 1, quad_pos, leftchar, pads + 1, out)
       ELSE A2bBase64(s, i + 1, quad_pos, leftchar, pads, out)
  ELSE IF ~IsB64Digit(s[i])
  THEN A2bBase64(s, i + 1, quad_pos, leftchar, pads, out)
  ELSE LET v == B64Val(s[i]) IN
       CASE quad_pos = 0 -> A2bBase64(s, i + 1, 1, v, 0, out)
         [] quad_pos = 1 ->
              A2bBase64(s, i + 1, 2, v % 16, 0,
                        Append(out, (leftchar * 4 + (v \div 16)) % 256))
         [] quad_pos = 2 ->
              A2bBase64(s, i + 1, 3, v % 4, 0,
                        Append(out, (leftchar * 16 + (v \div 4)) % 256))
         [] quad_pos = 3 ->
              A2bBase64(s, i + 1, 0, 0, 0,
                        Append(out, (leftchar * 64 + v) % 256))

B64Decode(s) == A2bBase64(s, 1, 0, 0, 0, << >>)

\* base64.b64encode(b).decode('utf-8')
RECURSIVE B64Encode(_)
B64Encode(b) ==
  IF Len(b) = 0 THEN << >>
  ELSE IF Len(b) = 1
  THEN <<B64Alphabet[(b[1] \div 4) + 1], B64Alphabet[((b[1] % 4) * 16) + 1],
         "=", "=">>
  ELSE IF Len(b) = 2
  THEN <<B64Alphabet[(b[1] \div 4) + 1],
         B64Alphabet[((b[1] % 4) * 16) + (b[2] \div 16) + 1],
         B64Alphabet[((b[2] % 16) * 4) + 1], "=">>
  ELSE <<B64Alphabet[(b[1] \div 4) + 1],
         B64Alphabet[((b[1] % 4) * 16) + (b[2] \div 16) + 1],
         B64Alphabet[((b[2] % 16) * 4) + (b[3] \div 64) + 1],
         B64Alphabet[(b[3] % 64) + 1]>>
       \o B64Encode(SubSeq(b, 4, Len(b)))

\* First byte of a PNG and of a JPEG stream.
PngMagic == 137
JpegMagic == 255

\* Image.open(BytesIO(image_bytes)): the stream is an image when it starts
\* with a known magic byte and carries a non-empty width and height.
ImageOpen(bytes) ==
  IF /\ Len(bytes) >= 3
     /\ bytes[1] \in {PngMagic, JpegMagic}
     /\ bytes[2] > 0
     /\ bytes[3] > 0
  THEN [ok |-> TRUE,
        format |-> IF bytes[1] = PngMagic THEN "PNG" ELSE "JPEG",
        width |-> bytes[2], height |-> bytes[3]]
  ELSE [ok |-> FALSE, format |-> "", width |-> 0, height |-> 0]

\* rembg.remove(input_image): an image of the same size with an alpha
\* channel; the call fails when the capability does (capability_ok = FALSE).
remove(image, capability_ok) ==
  [ok |-> capability_ok, format |-> "RGBA",
   width |-> image.width, height |-> image.height]

\* output_image.save(output_buffer, format='PNG'); output_buffer.getvalue()
SavePNG(image) == <<PngMagic, image.width, image.height>>

(***************************************************************************)
(* Requests.                                                               *)
(***************************************************************************)

\* A request body.  kind is what json.loads makes of it; hasImageData says
\* whether 'imageData' is in the parsed value (a key of an object, an element
\* of an array, a substring of a string); valueKind is the type of
\* data['imageData'], and prefix \o payload is its text when it is a string.
Body(kind, has, valueKind, prefix, payload) ==
  [kind |-> kind, hasImageData |-> has, valueKind |-> valueKind,
   prefix |-> prefix, payload |-> payload]

EmptyBody == Body("empty", FALSE, "none", << >>, << >>)

NonImageBodies ==
  {EmptyBody,
   Body("invalid", FALSE, "none", << >>, << >>),
   Body("null", FALSE, "none", << >>, << >>),
   Body("number", FALSE, "none", << >>, << >>),
   Body("string", FALSE, "none", << >>, << >>),
   Body("string", TRUE, "none", << >>, << >>),
   Body("array", FALSE, "none", << >>, << >>),
   Body("array", TRUE, "none", << >>, << >>),
   Body("object", FALSE, "none", << >>, << >>),
   Body("object", TRUE, "number", << >>, << >>),
   Body("object", TRUE, "array", << >>, << >>)}

ImageBodies(n) ==
  {Body("object", TRUE, "string", pre, pay) :
     pre \in Prefixes, pay \in Payloads(n)}

Bodies(n) == NonImageBodies \cup ImageBodies(n)

\* framing: "ok" is a request with a Content-Length header and
\* Content-Type: application/json; the other two lack one of them.
Framings == {"ok", "no-content-length", "not-json-content-type"}

Request(method, framing, body) ==
  [method |-> method, framing |-> framing, body |-> body]

NoRequest == Request("", "ok", EmptyBody)

RequestsUpTo(n) ==
  {Request("POST", f, b) : f \in Framings, b \in Bodies(n)}
    \cup {Request("OPTIONS", "no-content-length", EmptyBody)}

Requests == RequestsUpTo(MaxLen)
RequestsIO == RequestsUpTo(IOMaxLen)

Paths == {"/api/remove_bg", "/api/images_to_glb"}

\* What the handler's surroundings do during one request: whether the
\* background-removal call returns, and whether the client connection
\* still takes writes.
Env(capability_ok, conn_ok) ==
  [capability_ok |-> capability_ok, conn_ok |-> conn_ok]

ReliableEnvs == {Env(TRUE, TRUE)}
AllEnvs == {Env(c, w) : c \in BOOLEAN, w \in BOOLEAN}

HasContentLength(req) == req.framing # "no-content-length"
IsJsonContentType(req) == req.framing # "not-json-content-type"

\* json.loads(body) returns.
ParsesAsJson(body) == body.kind \notin {"empty", "invalid"}

\* `'imageData' not in data` and `data['imageData']` raise TypeError.
SupportsIn(body) == body.kind \in {"string", "array", "object"}
SupportsGetItem(body) == body.kind = "object"

ImageDataOf(body) == body.prefix \o body.payload

(***************************************************************************)
(* Responses.                                                              *)
(***************************************************************************)

Event(t, code, name, value) ==
  [t |-> t, code |-> code, name |-> name, value |-> value]

StatusLine(code) == Event("status", code, "", "")
Header(name, value) == Event("header", 0, name, value)
EndOfHeaders == Event("end", 0, "", "")
BodyWritten == Event("body", 0, "", "")

Json(success, error, processedImageData, message) ==
  [present |-> TRUE, success |-> success, error |-> error,
   processedImageData |-> processedImageData, message |-> message]

NoJson ==
  [present |-> FALSE, success |-> FALSE, error |-> << >>,
   processedImageData |-> << >>, message |-> ""]

NotReached == <<"<not reached>">>

\* The state of one handler invocation: the headers buffer, what has been
\* written to the connection, the JSON document written as the body, the
\* pending exception ("" when none), and the argument base64.b64decode
\* was called with.
NewHandler ==
  [buf |-> << >>, wire |-> << >>, body |-> NoJson, exc |-> "",
   b64_input |-> NotReached]

Raise(h, exc) == IF h.exc # "" THEN h ELSE [h EXCEPT !.exc = exc]

\* BaseHTTPRequestHandler.send_response: status line, Server and Date
\* headers go to the headers buffer.
send_response(h, code) ==
  IF h.exc # "" THEN h
  ELSE [h EXCEPT !.buf = @ \o <<StatusLine(code), Header("Server", "-"),
                                Header("Date", "-")>>]

send_header(h, name, value) ==
  IF h.exc # "" THEN h
  ELSE [h EXCEPT !.buf = Append(@, Header(name, value))]

\* BaseHTTPRequestHandler.end_headers: the buffer is written to the
\* connection and cleared; the write raises on a closed connection.
end_headers(h, env) ==
  IF h.exc # "" THEN h
  ELSE IF ~env.conn_ok THEN [h EXCEPT !.exc = "BrokenPipeError"]
  ELSE [h EXCEPT !.wire = @ \o h.buf \o <<EndOfHeaders>>, !.buf = << >>]

\* self.wfile.write(json.dumps(data).encode('utf-8'))
wfile_write(h, data, env) ==
  IF h.exc # "" THEN h
  ELSE IF ~env.conn_ok THEN [h EXCEPT !.exc = "BrokenPipeError"]
  ELSE [h EXCEPT !.wire = Append(@, BodyWritten), !.body = data]

_send_cors_headers(h) ==
  send_header(
    send_header(
      send_header(h, "Access-Control-Allow-Origin", "*"),
      "Access-Control-Allow-Methods", "POST, OPTIONS"),
    "Access-Control-Allow-Headers", "Content-Type")

_send_response(h, status_code, data, env) ==
  wfile_write(
    end_headers(
      send_header(_send_cors_headers(send_response(h, status_code)),
                  "Content-Type", "application/json"),
      env),
    data, env)

\* _send_error with the status fixed instead of passed on.
_send_error_fixed_status(h, status_code, message, env) ==
  _send_response(h, 500, Json(FALSE, message, << >>, ""), env)

_send_error(h, status_code, message, env) ==
  _send_response(h, status_code, Json(FALSE, message, << >>, ""), env)

\* An except clause that lets the exception go on.
Caught_reraised(h) == h

\* `except Exception as e:` a pending exception is taken off and handled.
Caught(h) == [h EXCEPT !.exc = ""]

\* The result without the data-URI prefix.
DataUri_bare(b64) == b64

DataUri(b64) == DataUriPrefix \o b64

(***************************************************************************)
(* api/remove_bg.py                                                        *)
(***************************************************************************)

\* The body of the try statement of handler.do_POST.
do_POST_try(req, available, env) ==
  LET h == NewHandler
      data == req.body
      image_data == IF HasComma(ImageDataOf(data))
                    THEN Split(ImageDataOf(data))[2]
                    ELSE ImageDataOf(data)
      hd == [h EXCEPT !.b64_input = image_data]
      image_bytes == B64Decode(image_data)
      input_image == ImageOpen(image_bytes.bytes)
      output_image == remove(input_image, env.capability_ok)
      output_base64 == B64Encode(SavePNG(output_image))
  IN
  IF ~available
  THEN _send_error(h, 500, <<"rembg package not available">>, env)
  ELSE IF ~HasContentLength(req) THEN Raise(h, "TypeError")
  ELSE IF ~ParsesAsJson(data) THEN Raise(h, "JSONDecodeError")
  ELSE IF ~SupportsIn(data) THEN Raise(h, "TypeError")
  ELSE IF ~data.hasImageData
  THEN _send_error(h, 400, <<"Missing imageData in request">>, env)
  ELSE IF ~SupportsGetItem(data) THEN Raise(h, "TypeError")
  ELSE IF data.valueKind # "string" THEN Raise(h, "TypeError")
  ELSE IF ~image_bytes.ok THEN Raise(hd, "binascii.Error")
  ELSE IF ~input_image.ok THEN Raise(hd, "UnidentifiedImageError")
  ELSE IF ~output_image.ok THEN Raise(hd, "CapabilityError")
  ELSE _send_response(hd, 200,
         Json(TRUE, << >>, DataUri(output_base64),
              "Background removed successfully"), env)

\* do_POST without the except clause.
do_POST_unguarded(req, available, env) == do_POST_try(req, available, env)

\* handler.do_POST: the try statement with its except clause.
do_POST(req, available, env) ==
  LET t == do_POST_try(req, available, env) IN
  IF t.exc # ""
  THEN _send_error(Caught(t), 500, <<"Processing failed: ", t.exc>>, env)
  ELSE t

do_OPTIONS(env) == end_headers(_send_cors_headers(NewHandler), env)

(***************************************************************************)
(* api/images_to_glb.py                                                    *)
(***************************************************************************)

glb_send_cors_headers(h) ==
  send_header(
    send_header(
      send_header(h, "Access-Control-Allow-Origin", "*"),
      "Access-Control-Allow-Methods", "POST, OPTIONS"),
    "Access-Control-Allow-Headers", "Content-Type")

\* _send_response that always answers 200.
glb_send_response_ok(h, status_code, data, env) ==
  wfile_write(
    end_headers(
      send_header(glb_send_cors_headers(send_response(h, 200)),
                  "Content-Type", "application/json"),
      env),
    data, env)

glb_send_response(h, status_code, data, env) ==
  wfile_write(
    end_headers(
      send_header(glb_send_cors_headers(send_response(h, status_code)),
                  "Content-Type", "application/json"),
      env),
    data, env)

glb_send_error(h, status_code, message, env) ==
  glb_send_response(h, status_code, Json(FALSE, message, << >>, ""), env)

glb_do_POST_try(req, env) ==
  LET h == NewHandler IN
  IF ~HasContentLength(req) THEN Raise(h, "TypeError")
  ELSE IF ~ParsesAsJson(req.body) THEN Raise(h, "JSONDecodeError")
  ELSE glb_send_response(h, 501,
         Json(FALSE, <<"Not implemented">>, << >>,
              "TRELLIS integration coming soon. Use direct GLB upload for now."),
         env)

glb_do_POST(req, env) ==
  LET t == glb_do_POST_try(req, env) IN
  IF t.exc # ""
  THEN glb_send_error(Caught(t), 500, <<t.exc>>, env)
  ELSE t

glb_do_OPTIONS(env) == end_headers(glb_send_cors_headers(NewHandler), env)

(***************************************************************************)
(* local_bg_server.py                                                      *)
(***************************************************************************)

\* What Flask makes of a view's return value: the status line, the content
\* type, and the body (none for the empty string).  The view only returns
\* the value; Flask sends it after the view has returned, so a closed
\* connection raises nothing in the view.
\* A view whose status is dropped, so that Flask answers 200.
FlaskResponse_ok(h, status_code, data) ==
  [h EXCEPT
    !.wire = <<StatusLine(200),
               Header("Content-Type",
                      IF data.present THEN "application/json"
                      ELSE "text/html"),
               EndOfHeaders>>
             \o (IF data.present THEN <<BodyWritten>> ELSE << >>),
    !.body = data]

FlaskResponse(h, status_code, data) ==
  [h EXCEPT
    !.wire = <<StatusLine(status_code),
               Header("Content-Type",
                      IF data.present THEN "application/json"
                      ELSE "text/html"),
               EndOfHeaders>>
             \o (IF data.present THEN <<BodyWritten>> ELSE << >>),
    !.body = data]

\* The body of the try statement of remove_background.
remove_background_try(req, env) ==
  LET h == NewHandler
      data == req.body
      image_data == IF HasComma(ImageDataOf(data))
                    THEN Split(ImageDataOf(data))[2]
                    ELSE ImageDataOf(data)
      hd == [h EXCEPT !.b64_input = image_data]
      image_bytes == B64Decode(image_data)
      input_image == ImageOpen(image_bytes.bytes)
      output_image == remove(input_image, env.capability_ok)
      output_base64 == B64Encode(SavePNG(output_image))
  IN
  IF ~IsJsonContentType(req) THEN Raise(h, "UnsupportedMediaType")
  ELSE IF ~HasContentLength(req) \/ ~ParsesAsJson(data)
  THEN Raise(h, "BadRequest")
  ELSE IF ~SupportsIn(data) THEN Raise(h, "TypeError")
  ELSE IF ~data.hasImageData
  THEN FlaskResponse(h, 400,
         Json(FALSE, <<"Missing imageData in request">>, << >>, ""))
  ELSE IF ~SupportsGetItem(data) THEN Raise(h, "TypeError")
  ELSE IF data.valueKind # "string" THEN Raise(h, "TypeError")
  ELSE IF ~image_bytes.ok THEN Raise(hd, "binascii.Error")
  ELSE IF ~input_image.ok THEN Raise(hd, "UnidentifiedImageError")
  ELSE IF ~output_image.ok THEN Raise(hd, "CapabilityError")
  ELSE FlaskResponse(hd, 200,
         Json(TRUE, << >>, DataUri(output_base64),
              "Background removed successfully"))

remove_background(req, env) ==
  IF req.method = "OPTIONS"
  THEN FlaskResponse(NewHandler, 200, NoJson)
  ELSE LET t == remove_background_try(req, env) IN
       IF t.exc # ""
       THEN FlaskResponse(Caught(t), 500,
              Json(FALSE, <<"Processing failed: ", t.exc>>, << >>, ""))
       ELSE t

(***************************************************************************)
(* The processes.                                                          *)
(***************************************************************************)

VARIABLES
  REMBG_AVAILABLE,   \* remove_bg.py: whether `from rembg import remove` worked
  request,           \* the request on the wire
  path,              \* the path it is sent to
  resp_remove_bg,    \* what api/remove_bg.py did with it
  resp_local,        \* what local_bg_server.py did with it
  resp_glb,          \* what api/images_to_glb.py did with it
  threads            \* the requests one remove_bg.py process serves at once

vars ==
  <<REMBG_AVAILABLE, request, path, resp_remove_bg, resp_local, resp_glb,
    threads>>

\* Number of requests one process serves at the same time.
NumThreads == 2

Threads == 1..NumThreads

Response(done, h) ==
  [done |-> done, wire |-> h.wire, body |-> h.body, exc |-> h.exc,
   b64_input |-> h.b64_input]

NoResponse == Response(FALSE, NewHandler)

\* One request in a process that serves several: where its handler is
\* (pc), the value of REMBG_AVAILABLE it read, and its response.
Thread(pc, req, available, resp) ==
  [pc |-> pc, req |-> req, available |-> available, resp |-> resp]

IdleThread == Thread("idle", NoRequest, FALSE, NoResponse)

\* The modules have been imported; no request has arrived.
Init ==
  /\ REMBG_AVAILABLE \in BOOLEAN
  /\ request = NoRequest
  /\ path = "/api/remove_bg"
  /\ resp_remove_bg = NoResponse
  /\ resp_local = NoResponse
  /\ resp_glb = NoResponse
  /\ threads = [t \in Threads |-> IdleThread]

\* A client connects and sends a request to one of the two paths.
Receive(requests) ==
  /\ request = NoRequest
  /\ \E r \in requests, p \in Paths :
       /\ request' = r
       /\ path' = p
  /\ resp_remove_bg' = NoResponse
  /\ resp_local' = NoResponse
  /\ resp_glb' = NoResponse
  /\ UNCHANGED <<REMBG_AVAILABLE, threads>>

\* The exchange is over: the connection is closed.
Close ==
  /\ request # NoRequest
  /\ request' = NoRequest
  /\ path' = "/api/remove_bg"
  /\ resp_remove_bg' = NoResponse
  /\ resp_local' = NoResponse
  /\ resp_glb' = NoResponse
  /\ UNCHANGED <<REMBG_AVAILABLE, threads>>

RemoveBgPost(env) ==
  /\ path = "/api/remove_bg"
  /\ request.method = "POST"
  /\ ~resp_remove_bg.done
  /\ resp_remove_bg' = Response(TRUE, do_POST(request, REMBG_AVAILABLE, env))
  /\ UNCHANGED <<REMBG_AVAILABLE, request, path, resp_local, resp_glb,
               threads>>

RemoveBgOptions(env) ==
  /\ path = "/api/remove_bg"
  /\ request.method = "OPTIONS"
  /\ ~resp_remove_bg.done
  /\ resp_remove_bg' = Response(TRUE, do_OPTIONS(env))
  /\ UNCHANGED <<REMBG_AVAILABLE, request, path, resp_local, resp_glb,
               threads>>

LocalRemoveBackground(env) ==
  /\ path = "/api/remove_bg"
  /\ request.method \in {"POST", "OPTIONS"}
  /\ ~resp_local.done
  /\ resp_local' = Response(TRUE, remove_background(request, env))
  /\ UNCHANGED <<REMBG_AVAILABLE, request, path, resp_remove_bg, resp_glb,
               threads>>

GlbPost(env) ==
  /\ path = "/api/images_to_glb"
  /\ request.method = "POST"
  /\ ~resp_glb.done
  /\ resp_glb' = Response(TRUE, glb_do_POST(request, env))
  /\ UNCHANGED <<REMBG_AVAILABLE, request, path, resp_remove_bg, resp_local,
               threads>>

GlbOptions(env) ==
  /\ path = "/api/images_to_glb"
  /\ request.method = "OPTIONS"
  /\ ~resp_glb.done
  /\ resp_glb' = Response(TRUE, glb_do_OPTIONS(env))
  /\ UNCHANGED <<REMBG_AVAILABLE, request, path, resp_remove_bg, resp_local,
               threads>>

Handle(env) ==
  \/ RemoveBgPost(env)
  \/ RemoveBgOptions(env)
  \/ LocalRemoveBackground(env)
  \/ GlbPost(env)
  \/ GlbOptions(env)

\* Every call of the capability returns and every connection stays open.
Next ==
  \/ Receive(Requests)
  \/ Close
  \/ \E env \in ReliableEnvs : Handle(env)

Spec == Init /\ [][Next]_vars

\* The capability may raise and the client may have closed the connection.
NextIO ==
  \/ Receive(RequestsIO)
  \/ Close
  \/ \E env \in AllEnvs : Handle(env)

SpecIO == Init /\ [][NextIO]_vars

(***************************************************************************)
(* One remove_bg.py process serving several requests at once.  The only    *)
(* module-level name a handler reads is REMBG_AVAILABLE; the handler is    *)
(* cut at that read.                                                       *)
(***************************************************************************)

ThreadRequests ==
  {Request("POST", "ok", Body("invalid", FALSE, "none", << >>, << >>)),
   Request("POST", "ok", Body("object", FALSE, "none", << >>, << >>)),
   Request("POST", "no-content-length",
           Body("object", FALSE, "none", << >>, << >>)),
   Request("POST", "ok", Body("object", TRUE, "number", << >>, << >>)),
   Request("POST", "ok",
           Body("object", TRUE, "string", << >>, <<"i","Q","Q","Q">>)),
   Request("POST", "ok",
           Body("object", TRUE, "string", DataUriPrefix, <<"/","/","i","Q">>)),
   Request("POST", "ok",
           Body("object", TRUE, "string", << >>, <<"i","Q","!","Q","Q">>)),
   Request("POST", "ok",
           Body("object", TRUE, "string", << >>, <<"i","Q">>))}

\* A handler that gives the capability up after a failed request.
AvailableAfter_cleared(available, h) == available /\ h.body.success

\* The value REMBG_AVAILABLE has after a handler has run: no handler
\* assigns it.
AvailableAfter(available, h) == available

Accept(t) ==
  /\ threads[t].pc = "idle"
  /\ \E r \in ThreadRequests :
       threads' = [threads EXCEPT ![t] = Thread("check", r, FALSE, NoResponse)]
  /\ UNCHANGED <<REMBG_AVAILABLE, request, path, resp_remove_bg, resp_local,
                 resp_glb>>

\* `if not REMBG_AVAILABLE:` the handler reads the flag.
CheckAvailable(t) ==
  /\ threads[t].pc = "check"
  /\ threads' = [threads EXCEPT ![t].pc = "run",
                                ![t].available = REMBG_AVAILABLE]
  /\ UNCHANGED <<REMBG_AVAILABLE, request, path, resp_remove_bg, resp_local,
                 resp_glb>>

\* The rest of do_POST.
Run(t) ==
  /\ threads[t].pc = "run"
  /\ \E env \in ReliableEnvs :
       LET h == do_POST(threads[t].req, threads[t].available, env) IN
       /\ threads' = [threads EXCEPT ![t].pc = "done",
                                     ![t].resp = Response(TRUE, h)]
       /\ REMBG_AVAILABLE' = AvailableAfter(REMBG_AVAILABLE, h)
  /\ UNCHANGED <<request, path, resp_remove_bg, resp_local, resp_glb>>

Release(t) ==
  /\ threads[t].pc = "done"
  /\ threads' = [threads EXCEPT ![t] = IdleThread]
  /\ UNCHANGED <<REMBG_AVAILABLE, request, path, resp_remove_bg, resp_local,
                 resp_glb>>

NextThreads ==
  \E t \in Threads : Accept(t) \/ CheckAvailable(t) \/ Run(t) \/ Release(t)

SpecThreads == Init /\ [][NextThreads]_vars

(***************************************************************************)
(* Properties.                                                             *)
(***************************************************************************)

\* The status code of the status line a response starts with; 0 when the
\* response does not start with a status line.
Status(resp) ==
  IF Len(resp.wire) > 0 /\ resp.wire[1].t = "status"
  THEN resp.wire[1].code
  ELSE 0

CorsHeaders ==
  {Header("Access-Control-Allow-Origin", "*"),
   Header("Access-Control-Allow-Methods", "POST, OPTIONS"),
   Header("Access-Control-Allow-Headers", "Content-Type")}

Occurs(ev, wire) == \E i \in DOMAIN wire : wire[i] = ev

\* The three CORS headers come after a leading status line and before the
\* end of the headers.
CorsAfterStatusLine(wire) ==
  /\ Status([wire |-> wire]) # 0
  /\ \E e \in DOMAIN wire :
       /\ wire[e] = EndOfHeaders
       /\ \A c \in CorsHeaders : \E i \in 2..(e - 1) : wire[i] = c

IsFailure(resp, code) ==
  /\ Status(resp) = code
  /\ resp.body.present
  /\ resp.body.success = FALSE

\* A POST with Content-Length and Content-Type: application/json whose
\* body is a JSON object without the key imageData.
MissingKeyPost(req) ==
  /\ req.method = "POST"
  /\ req.framing = "ok"
  /\ req.body.kind = "object"
  /\ ~req.body.hasImageData

\* C1 as stated: every POST whose JSON body lacks the key imageData is
\* answered 400 with success = false by the serverless handler and by the
\* local server, whatever the state of the process.
C1_AsStated ==
  MissingKeyPost(request) =>
    /\ resp_remove_bg.done => IsFailure(resp_remove_bg, 400)
    /\ resp_local.done => IsFailure(resp_local, 400)

\* C1 amended: a POST whose JSON body is an object without the key
\* imageData is answered 400 with success = false by the local server, and
\* by the serverless handler when REMBG_AVAILABLE is true; when it is
\* false the serverless handler answers 500 with success = false.
C1_MissingImageData ==
  MissingKeyPost(request) =>
    /\ resp_remove_bg.done =>
         IF REMBG_AVAILABLE THEN IsFailure(resp_remove_bg, 400)
         ELSE IsFailure(resp_remove_bg, 500)
    /\ resp_local.done => IsFailure(resp_local, 400)

C1_Witness ==
  /\ MissingKeyPost(request)
  /\ REMBG_AVAILABLE
  /\ resp_remove_bg.done /\ Status(resp_remove_bg) = 400
  /\ resp_local.done /\ Status(resp_local) = 400

\* imageData is a string.
ImageStringPost(req) ==
  /\ req.method = "POST"
  /\ req.body.kind = "object"
  /\ req.body.hasImageData
  /\ req.body.valueKind = "string"

\* RFC 4648 base64 without padding: only alphabet characters, in quads.
\* (A payload over PayloadAlphabet has no pad characters.)
IsStrictBase64(s) ==
  /\ Len(s) % 4 = 0
  /\ \A i \in DOMAIN s : IsB64Digit(s[i])

\* The payload is not base64, or is base64 of bytes that are no image.
MalformedOrUndecodable(payload) ==
  \/ ~IsStrictBase64(payload)
  \/ ~ImageOpen(B64Decode(payload).bytes).ok

\* C2 as stated: a POST whose imageData is malformed base64, or base64 of
\* bytes that are not an image, is answered 500 with success = false.
C2_AsStated ==
  (ImageStringPost(request) /\ MalformedOrUndecodable(request.body.payload)) =>
    /\ resp_remove_bg.done => IsFailure(resp_remove_bg, 500)
    /\ resp_local.done => IsFailure(resp_local, 500)

\* base64.b64decode was called and raised, or returned bytes Image.open
\* rejects.
DecodeFailed(resp) ==
  /\ resp.b64_input # NotReached
  /\ \/ ~B64Decode(resp.b64_input).ok
     \/ ~ImageOpen(B64Decode(resp.b64_input).bytes).ok

\* C2 amended: a POST for which base64.b64decode raises on the text it is
\* given (it skips characters outside the alphabet and raises only on an
\* incomplete quad), or whose decoded bytes are not a decodable image, is
\* answered 500 with success = false, never 200.
C2_DecodeFailure ==
  /\ (resp_remove_bg.done /\ DecodeFailed(resp_remove_bg))
       => IsFailure(resp_remove_bg, 500)
  /\ (resp_local.done /\ DecodeFailed(resp_local))
       => IsFailure(resp_local, 500)

C2_Witness ==
  /\ resp_remove_bg.done /\ resp_local.done
  /\ ~B64Decode(resp_remove_bg.b64_input).ok
  /\ resp_remove_bg.body.error = <<"Processing failed: ", "binascii.Error">>
  /\ Status(resp_local) = 500

\* C3 as stated: every POST to the 3D-conversion endpoint, whatever its
\* body, is answered 501 with error "Not implemented" and success = false.
C3_AsStated ==
  (request.method = "POST" /\ resp_glb.done) =>
    /\ IsFailure(resp_glb, 501)
    /\ resp_glb.body.error = <<"Not implemented">>

\* C3 amended: a POST with a Content-Length header and a body that parses
\* as JSON is answered 501 with error "Not implemented" and success =
\* false; a POST without Content-Length or with a body that is not JSON
\* is answered 500 with success = false.
C3_NotImplemented ==
  (request.method = "POST" /\ resp_glb.done) =>
    IF HasContentLength(request) /\ ParsesAsJson(request.body)
    THEN /\ IsFailure(resp_glb, 501)
         /\ resp_glb.body.error = <<"Not implemented">>
    ELSE IsFailure(resp_glb, 500)

C3_Witness ==
  /\ request.method = "POST"
  /\ HasContentLength(request)
  /\ ImageStringPost(request)
  /\ resp_glb.done
  /\ Status(resp_glb) = 501

\* C4: every OPTIONS request to a serverless endpoint gets a response with
\* a status line of status 200 or 204, the three CORS headers, and no body.
C4_Preflight ==
  \A resp \in {resp_remove_bg, resp_glb} :
    (request.method = "OPTIONS" /\ resp.done) =>
      /\ Status(resp) \in {200, 204}
      /\ \A c \in CorsHeaders : Occurs(c, resp.wire)
      /\ ~Occurs(BodyWritten, resp.wire)

\* C5: every response of the two serverless handlers, on every path,
\* carries the three CORS headers after the status line and before the end
\* of the headers.
C5_CorsOnEveryResponse ==
  \A resp \in {resp_remove_bg, resp_glb} :
    resp.done => CorsAfterStatusLine(resp.wire)

\* imageData is the base64 text of an image, bare or behind the data-URI
\* prefix, in a POST with Content-Length and Content-Type application/json.
ValidImagePost(req) ==
  /\ ImageStringPost(req)
  /\ req.framing = "ok"
  /\ IsStrictBase64(req.body.payload)
  /\ ImageOpen(B64Decode(req.body.payload).bytes).ok

StartsWith(s, pre) ==
  /\ Len(s) >= Len(pre)
  /\ SubSeq(s, 1, Len(pre)) = pre

\* The same request with the bare form of imageData.
BareForm(req) == [req EXCEPT !.body.prefix = << >>]

\* The response is 200 with success = true and a processedImageData that
\* is the data-URI prefix followed by the base64 text of a PNG as wide and
\* as high as the image in the request.
IsProcessedImage(resp, req) ==
  /\ Status(resp) = 200
  /\ resp.body.present
  /\ resp.body.success = TRUE
  /\ StartsWith(resp.body.processedImageData, DataUriPrefix)
  /\ LET rest == SubSeq(resp.body.processedImageData, Len(DataUriPrefix) + 1,
                        Len(resp.body.processedImageData))
         out == ImageOpen(B64Decode(rest).bytes)
         inp == ImageOpen(B64Decode(req.body.payload).bytes)
     IN /\ IsStrictBase64(rest)
        /\ out.ok
        /\ out.format = "PNG"
        /\ out.width = inp.width
        /\ out.height = inp.height

C8_AsStated ==
  (resp_remove_bg.done /\ resp_local.done) =>
    /\ Status(resp_remove_bg) = Status(resp_local)
    /\ resp_remove_bg.body = resp_local.body

\* C8 amended: when REMBG_AVAILABLE is true, the two answer every POST
\* that has a Content-Length header, Content-Type application/json and a
\* body that parses as JSON with the same status code and the same JSON
\* body.
C8_MirrorOnJsonPosts ==
  ( /\ request.method = "POST"
    /\ request.framing = "ok"
    /\ ParsesAsJson(request.body)
    /\ REMBG_AVAILABLE
    /\ resp_remove_bg.done
    /\ resp_local.done ) =>
    /\ Status(resp_remove_bg) = Status(resp_local)
    /\ resp_remove_bg.body = resp_local.body

C8_Witness ==
  /\ request.method = "POST"
  /\ request.framing = "ok"
  /\ REMBG_AVAILABLE
  /\ resp_remove_bg.done
  /\ resp_local.done
  /\ Status(resp_local) = 400
  /\ Status(resp_remove_bg) = 400
  /\ resp_remove_bg.body = resp_local.body

\* Everything after the first comma of s.
AfterFirstComma(s) ==
  LET first == CHOOSE i \in DOMAIN s :
                 s[i] = "," /\ \A j \in 1..(i - 1) : s[j] # ","
  IN SubSeq(s, first + 1, Len(s))

\* C10: the text given to the base64 decoder is imageData itself when it
\* has no comma, and everything after its first comma when it has one.
C10_StripPrefix ==
  \A resp \in {resp_remove_bg, resp_local} :
    (resp.done /\ resp.b64_input # NotReached) =>
      resp.b64_input
        = IF HasComma(ImageDataOf(request.body))
          THEN AfterFirstComma(ImageDataOf(request.body))
          ELSE ImageDataOf(request.body)

\* The response is a JSON document: success with status 200, or
\* {success: false, error} with status 400, 500 or 501.
IsJsonOutcome(resp) ==
  /\ resp.body.present
  /\ \/ Status(resp) = 200 /\ resp.body.success
     \/ /\ Status(resp) \in {400, 500, 501}
        /\ ~resp.body.success
        /\ resp.body.error # << >>

\* C7 as stated: no exception raised while a POST is handled, the writing
\* of the response included, leaves the handler; each becomes a JSON
\* error response.
C7_AsStated ==
  \A resp \in {resp_remove_bg, resp_glb, resp_local} :
    (request.method = "POST" /\ resp.done) =>
      /\ resp.exc = ""
      /\ IsJsonOutcome(resp)

\* C7 amended: every exception raised while a POST is handled, up to the
\* writing of the response, is caught and becomes a JSON response
\* {success: false, error} with status 500, and the handler returns
\* normally; the only exception that leaves a handler is the one raised
\* by writing the response to a closed connection, in the two serverless
\* handlers.
C7_ExceptionsCaught ==
  /\ \A resp \in {resp_remove_bg, resp_glb} :
       (request.method = "POST" /\ resp.done) =>
         /\ resp.exc \in {"", "BrokenPipeError"}
         /\ resp.exc = "" => IsJsonOutcome(resp)
  /\ (request.method = "POST" /\ resp_local.done) =>
       /\ resp_local.exc = ""
       /\ IsJsonOutcome(resp_local)

C7_Witness ==
  /\ request.method = "POST"
  /\ resp_remove_bg.done
  /\ resp_remove_bg.exc = ""
  /\ Status(resp_remove_bg) = 500
  /\ resp_remove_bg.body.error = <<"Processing failed: ", "CapabilityError">>
  /\ resp_glb = NoResponse

\* The response this request gets when it is the only one in the process.
AloneResponse(req, available) ==
  Response(TRUE, do_POST(req, available, Env(TRUE, TRUE)))

\* C9: no request changes REMBG_AVAILABLE, and under every interleaving
\* each request's response is the one it gets when handled alone, a
\* function of the request and of the flag.
C9_Independent ==
  /\ [](\A t \in Threads :
          threads[t].pc = "done" =>
            threads[t].resp = AloneResponse(threads[t].req, REMBG_AVAILABLE))
  /\ [][REMBG_AVAILABLE' = REMBG_AVAILABLE]_vars

C9_Witness ==
  /\ REMBG_AVAILABLE
  /\ threads[1].pc = "done" /\ Status(threads[1].resp) = 500
  /\ threads[2].pc = "done" /\ Status(threads[2].resp) = 200

====
